---- MODULE Spec2Model ----
(***************************************************************************)
(* MqttLogger (src/src/loggers/mqttlog.rs): a log sink whose log() formats *)
(* a record on the caller's thread and sends it as Command::SendMessage    *)
(* over an unbounded crossbeam channel to a worker thread.  The worker     *)
(* starts the MQTT client, then receives commands and publishes them until *)
(* it receives Command::Exit.  Drop sends Exit and joins the worker.       *)
(*                                                                         *)
(* The receiving end `rx` lives in the worker closure: it is dropped when  *)
(* the closure returns or unwinds, and from then on every send fails.      *)
(* The sink's methods are modelled as operations any caller thread may run *)
(* in any state of the sink, including while and after the shutdown path   *)
(* runs (the cases "used after its worker has been torn down" and "double  *)
(* teardown" are about exactly that).                                      *)
(***************************************************************************)
EXTENDS Integers, Sequences, FiniteSets, TLC

(* ---------------------------- bounds ----------------------------------- *)

\* caller threads logging through the same sink
NumProducers == 2
\* log calls each caller thread makes in the scenario InitThreads
MaxMsgs == 1
\* length of a formatted record, in characters
MaxLen == 2
\* runs of the shutdown path on the same sink
MaxDrops == 2

Producers == 1..NumProducers

(* ---------------------------- levels ----------------------------------- *)

\* log::LevelFilter and log::Level with their discriminants; the comparison
\* `metadata.level() <= self.log_level` compares the discriminants.
LevelFilters == {"Off", "Error", "Warn", "Info", "Debug", "Trace"}
Levels == LevelFilters \ {"Off"}
Discriminant ==
    [l \in LevelFilters |->
        CASE l = "Off" -> 0
          [] l = "Error" -> 1
          [] l = "Warn" -> 2
          [] l = "Info" -> 3
          [] l = "Debug" -> 4
          [] l = "Trace" -> 5]

enabledStrict(level, configured) == Discriminant[level] < Discriminant[configured]
\* fn enabled: metadata.level() <= self.log_level
enabled(level, configured) == Discriminant[level] <= Discriminant[configured]

(* ---------------------------- text ------------------------------------- *)

Chars == {"a", " "}
Whitespace == {" ", "\n", "\t", "\r"}

RECURSIVE SeqsUpTo(_, _)
SeqsUpTo(S, n) ==
    IF n = 0 THEN {<<>>}
    ELSE LET shorter == SeqsUpTo(S, n - 1)
         IN  shorter \cup {Append(s, c) : s \in {t \in shorter : Len(t) = n - 1}, c \in S}

\* what try_log may leave in the buffer (try_log writes text, so the
\* str::from_utf8(..).unwrap() of log succeeds on it)
Outputs == SeqsUpTo(Chars, MaxLen)

trim_one(s) ==
    IF s # <<>> /\ s[Len(s)] \in Whitespace THEN SubSeq(s, 1, Len(s) - 1) ELSE s
\* str::trim_end: the string without its trailing whitespace
RECURSIVE trim_end(_)
trim_end(s) ==
    IF s # <<>> /\ s[Len(s)] \in Whitespace
    THEN trim_end(SubSeq(s, 1, Len(s) - 1))
    ELSE s

\* format!("logging/{}", application_name)
topic(name) == "logging/" \o name

(* ---------------------------- inputs ----------------------------------- *)

\* a call of log(): the record's level and what the formatter try_log does
\* with it (ok = try_log returned Ok, data = the bytes it wrote)
Record(level, ok, data) == [op |-> "log", level |-> level, ok |-> ok, data |-> data]
\* a call of flush()
FlushCall == [op |-> "flush"]
\* a call of SharedLogger::as_log on the Box<MqttLogger>
AsLogCall == [op |-> "as_log"]

AppNames == {"demo", "application"}

PlainRecord == Record("Info", TRUE, <<"a">>)
LevelRecords == {Record(l, TRUE, <<"a">>) : l \in Levels}
TextRecords ==
    {Record(l, TRUE, d) : l \in {"Info", "Debug"}, d \in Outputs}
        \cup {Record(l, FALSE, d) : l \in {"Info", "Debug"}, d \in {<<>>, <<"a">>}}

UpToTwo(S) == {<<>>} \cup {<<r>> : r \in S} \cup {<<r, s>> : r \in S, s \in S}

\* what a host does with the sink besides logging: as_log consumes the
\* Box<MqttLogger>, so a program holds it at most once
HostPrograms == UpToTwo({PlainRecord, FlushCall, AsLogCall}) \ {<<AsLogCall, AsLogCall>>}

VARIABLES
    log_level,         \* MqttLogger.log_level
    application_name,  \* the application_name given to new()
    program,           \* program[p]: the records caller thread p logs, in order
    calls,             \* calls[p]: log calls caller thread p has made
    callerPanicked,    \* callerPanicked[p]: p's log call panicked in send
    try_log_calls,     \* invocations of the formatter try_log
    queue,             \* the channel's buffered commands, oldest first
    sent,              \* every command the channel accepted, in send order
    rxAlive,           \* the receiving end rx has not been dropped
    wstate,            \* where the worker thread is
    inflight,          \* the command inside mqtt_client.publish, if any
    published,         \* publishes that returned Ok, in call order
    failed,            \* the command whose publish returned Err, if any
    join_handle,       \* MqttLogger.join_handle: "Some" or "None"
    dropPc,            \* where the shutdown path (Drop::drop) is
    drops              \* runs of the shutdown path started

vars == <<log_level, application_name, program, calls, callerPanicked,
          try_log_calls, queue, sent, rxAlive, wstate, inflight, published,
          failed, join_handle, dropPc, drops>>

inputVars == <<log_level, application_name, program>>
callerVars == <<calls, callerPanicked, try_log_calls>>
workerVars == <<wstate, inflight, published, failed>>
dropVars == <<join_handle, dropPc, drops>>

(* ---------------------------- commands --------------------------------- *)

\* Command::SendMessage(String); id = <<caller, call number>> names the log
\* call it comes from
SendMessage(payload, id) == [type |-> "SendMessage", payload |-> payload, id |-> id]
\* Command::Exit
Exit == [type |-> "Exit"]

EnqueueTwice(q, c) == Append(Append(q, c), c)
EnqueueFront(q, c) == <<c>> \o q
EnqueueBounded(q, c) == IF Len(q) > 1 THEN q ELSE Append(q, c)
\* Sender::send on the unbounded channel: the command goes to the back
Enqueue(q, c) == Append(q, c)

DequeueLast(q) == [cmd |-> q[Len(q)], rest |-> SubSeq(q, 1, Len(q) - 1)]
DequeueSkip(q) == [cmd |-> Head(q), rest |-> IF Len(q) > 1 THEN Tail(Tail(q)) ELSE <<>>]
\* rx.iter().next(): the oldest buffered command
Dequeue(q) == [cmd |-> Head(q), rest |-> Tail(q)]

(* ---------------------------- construction ----------------------------- *)

\* MqttLogger::new: the channel is empty, the worker thread is spawned and
\* has not yet started the client, the join handle is stored
New(level, name, prog) ==
    /\ log_level = level
    /\ application_name = name
    /\ program = prog
    /\ calls = [p \in Producers |-> 0]
    /\ callerPanicked = [p \in Producers |-> FALSE]
    /\ try_log_calls = 0
    /\ queue = <<>>
    /\ sent = <<>>
    /\ rxAlive = TRUE
    /\ wstate = "Connecting"
    /\ inflight = <<>>
    /\ published = <<>>
    /\ failed = <<>>
    /\ join_handle = "Some"
    /\ dropPc = "alive"
    /\ drops = 0

\* every caller thread logs MaxMsgs accepted records
InitThreads ==
    New("Info", "demo", [p \in Producers |-> [k \in 1..MaxMsgs |-> PlainRecord]])

\* two caller threads, two accepted records each
InitPair ==
    New("Info", "demo",
        [p \in Producers |-> IF p <= 2 THEN <<PlainRecord, PlainRecord>> ELSE <<>>])

\* one caller thread, every configured level against every record level
InitLevels ==
    \E level \in LevelFilters, prog \in UpToTwo(LevelRecords) :
        New(level, "demo", [p \in Producers |-> IF p = 1 THEN prog ELSE <<>>])

\* one caller thread, every formatter output
InitText ==
    \E name \in AppNames, prog \in UpToTwo(TextRecords) :
        New("Info", name, [p \in Producers |-> IF p = 1 THEN prog ELSE <<>>])

\* one caller thread that logs, flushes and converts the sink
InitHost ==
    \E prog \in HostPrograms :
        New("Info", "demo", [p \in Producers |-> IF p = 1 THEN prog ELSE <<>>])

Init == InitThreads \/ InitPair \/ InitLevels \/ InitText \/ InitHost

(* ---------------------------- caller threads --------------------------- *)

should_send_unchecked(ok, data) == TRUE
\* `if try_log(..).is_ok() { if !data.is_empty() { self.send(..) } }`
should_send(ok, data) == ok /\ data # <<>>

\* impl Log for MqttLogger, fn log, with the fn send it calls
Log(p) ==
    /\ ~callerPanicked[p]
    /\ calls[p] < Len(program[p])
    /\ program[p][calls[p] + 1].op = "log"
    /\ LET k == calls[p] + 1
           r == program[p][k]
       IN  /\ calls' = [calls EXCEPT ![p] = k]
           /\ IF ~enabled(r.level, log_level)
              THEN UNCHANGED <<try_log_calls, queue, sent, callerPanicked>>
              ELSE /\ try_log_calls' = try_log_calls + 1
                   /\ IF ~should_send(r.ok, r.data)
                      THEN UNCHANGED <<queue, sent, callerPanicked>>
                      ELSE IF rxAlive
                           THEN /\ queue' = Enqueue(queue, SendMessage(trim_end(r.data), <<p, k>>))
                                /\ sent' = Append(sent, SendMessage(trim_end(r.data), <<p, k>>))
                                /\ UNCHANGED callerPanicked
                           ELSE /\ callerPanicked' = [callerPanicked EXCEPT ![p] = TRUE]
                                /\ UNCHANGED <<queue, sent>>
    /\ UNCHANGED <<inputVars, rxAlive, workerVars, dropVars>>

flush_clears(q) == <<>>
\* fn flush(&self) {}: the channel is left as it is
flush(q) == q

\* impl Log for MqttLogger, fn flush
Flush(p) ==
    /\ ~callerPanicked[p]
    /\ calls[p] < Len(program[p])
    /\ program[p][calls[p] + 1].op = "flush"
    /\ calls' = [calls EXCEPT ![p] = calls[p] + 1]
    /\ queue' = flush(queue)
    /\ UNCHANGED <<inputVars, callerPanicked, try_log_calls, sent, rxAlive,
                   workerVars, dropVars>>

as_log_drops(q) == Append(q, Exit)
\* Box::new(*self): the sink is moved into the new box; a move runs no Drop
as_log(q) == q

\* impl SharedLogger for MqttLogger, fn as_log
AsLog(p) ==
    /\ ~callerPanicked[p]
    /\ calls[p] < Len(program[p])
    /\ program[p][calls[p] + 1].op = "as_log"
    /\ calls' = [calls EXCEPT ![p] = calls[p] + 1]
    /\ queue' = as_log(queue)
    /\ UNCHANGED <<inputVars, callerPanicked, try_log_calls, sent, rxAlive,
                   workerVars, dropVars>>

(* ---------------------------- worker thread ---------------------------- *)

sender_dropped_at_join == dropPc \in {"joining", "done", "fatal"} \/ drops > 1
\* the Sender is a field of MqttLogger: it is dropped with the sink, after a
\* run of Drop::drop has returned or unwound
sender_dropped == dropPc \in {"done", "fatal"} \/ drops > 1

\* MqttClient::start under ReconnectOptions::Always(1): an attempt that
\* fails is retried after the backoff, for as long as attempts fail
ConnectRetry ==
    /\ wstate = "Connecting"
    /\ wstate' = "Backoff"
    /\ UNCHANGED <<inputVars, callerVars, queue, sent, rxAlive, inflight,
                   published, failed, dropVars>>

BackoffElapsed ==
    /\ wstate = "Backoff"
    /\ wstate' = "Connecting"
    /\ UNCHANGED <<inputVars, callerVars, queue, sent, rxAlive, inflight,
                   published, failed, dropVars>>

\* MqttClient::start returned Ok(client): the receive loop is entered
ConnectOk ==
    /\ wstate = "Connecting"
    /\ wstate' = "Running"
    /\ UNCHANGED <<inputVars, callerVars, queue, sent, rxAlive, inflight,
                   published, failed, dropVars>>

\* MqttClient::start returned Err: the closure returns, which drops rx
ConnectErr ==
    /\ wstate = "Connecting"
    /\ wstate' = "Returned"
    /\ rxAlive' = FALSE
    /\ UNCHANGED <<inputVars, callerVars, queue, sent, inflight, published,
                   failed, dropVars>>

ExitIgnored == [wstate |-> "Running", rxAlive |-> TRUE]
\* Command::Exit => break: the loop is left, the closure ends, rx is dropped
AfterExit == [wstate |-> "Exited", rxAlive |-> FALSE]

\* one turn of `for message in rx.iter()` up to the call of publish; the
\* iterator blocks on an empty channel and ends when the channel is empty
\* and every Sender has been dropped
Recv ==
    /\ wstate = "Running"
    /\ queue # <<>> \/ sender_dropped
    /\ IF queue = <<>>
       THEN /\ wstate' = "Disconnected"
            /\ rxAlive' = FALSE
            /\ UNCHANGED <<queue, inflight>>
       ELSE LET d == Dequeue(queue)
            IN  /\ queue' = d.rest
                /\ IF d.cmd.type = "SendMessage"
                   THEN /\ wstate' = "Publishing"
                        /\ inflight' = <<d.cmd>>
                        /\ UNCHANGED rxAlive
                   ELSE /\ wstate' = AfterExit.wstate
                        /\ rxAlive' = AfterExit.rxAlive
                        /\ UNCHANGED inflight
    /\ UNCHANGED <<inputVars, callerVars, sent, published, failed, dropVars>>

\* mqtt_client.publish(topic, QoS::AtLeastOnce, false, message) returned Ok
PublishOk ==
    /\ wstate = "Publishing"
    /\ published' = Append(published,
                           [topic |-> topic(application_name),
                            payload |-> inflight[1].payload,
                            id |-> inflight[1].id])
    /\ inflight' = <<>>
    /\ wstate' = "Running"
    /\ UNCHANGED <<inputVars, callerVars, queue, sent, rxAlive, failed, dropVars>>

PublishFailureRetry(q, c) == [wstate |-> "Running", rxAlive |-> TRUE, queue |-> <<c>> \o q]
\* `if let Err(_) = publish(..) { panic!("Failed to send log") }`: the panic
\* unwinds the worker thread, which drops rx; the channel keeps what it held
PublishFailure(q, c) == [wstate |-> "Panicked", rxAlive |-> FALSE, queue |-> q]

\* mqtt_client.publish returned Err
PublishErr ==
    /\ wstate = "Publishing"
    /\ failed' = inflight
    /\ inflight' = <<>>
    /\ LET after == PublishFailure(queue, inflight[1])
       IN  /\ wstate' = after.wstate
           /\ rxAlive' = after.rxAlive
           /\ queue' = after.queue
    /\ UNCHANGED <<inputVars, callerVars, sent, published, dropVars>>

Worker == ConnectRetry \/ BackoffElapsed \/ ConnectOk \/ ConnectErr
              \/ Recv \/ PublishOk \/ PublishErr

(* ---------------------------- shutdown path ---------------------------- *)

\* drop, first statement: self.sender.send(Command::Exit), panic on Err
DropSend ==
    /\ dropPc \in {"alive", "done", "fatal"}
    /\ drops < MaxDrops
    /\ drops' = drops + 1
    /\ IF rxAlive
       THEN /\ queue' = Enqueue(queue, Exit)
            /\ sent' = Append(sent, Exit)
            /\ dropPc' = "sent"
       ELSE /\ dropPc' = "fatal"
            /\ UNCHANGED <<queue, sent>>
    /\ UNCHANGED <<inputVars, callerVars, rxAlive, workerVars, join_handle>>

peek(handle) == handle
\* Option::take: what is left in the field
take(handle) == "None"

\* drop: self.join_handle.take(), panic on None
DropTake ==
    /\ dropPc = "sent"
    /\ IF join_handle = "Some"
       THEN /\ join_handle' = take(join_handle)
            /\ dropPc' = "joining"
       ELSE /\ dropPc' = "fatal"
            /\ UNCHANGED join_handle
    /\ UNCHANGED <<inputVars, callerVars, queue, sent, rxAlive, workerVars, drops>>

JoinWithoutWaiting == TRUE
\* the thread function has returned or unwound
WorkerFinished == wstate \in {"Returned", "Exited", "Disconnected", "Panicked"}

join_result_ignored == "done"
\* `if let Err(error) = handle.join() { panic!(..) }`: join returns Err when
\* the worker thread panicked
join_result == IF wstate = "Panicked" THEN "fatal" ELSE "done"

\* drop: handle.join() returns once the worker thread has finished, and drop
\* panics on Err
DropJoin ==
    /\ dropPc = "joining"
    /\ WorkerFinished
    /\ dropPc' = join_result
    /\ UNCHANGED <<inputVars, callerVars, queue, sent, rxAlive, workerVars,
                   join_handle, drops>>

Drop == DropSend \/ DropTake \/ DropJoin

(* ---------------------------- specification ---------------------------- *)

Next ==
    \/ \E p \in Producers : Log(p)
    \/ \E p \in Producers : Flush(p)
    \/ \E p \in Producers : AsLog(p)
    \/ ConnectRetry
    \/ BackoffElapsed
    \/ ConnectOk
    \/ ConnectErr
    \/ Recv
    \/ PublishOk
    \/ PublishErr
    \/ DropSend
    \/ DropTake
    \/ DropJoin

Spec == Init /\ [][Next]_vars

\* the worker thread and the thread running drop are scheduled; whether a
\* connection attempt succeeds is not up to the scheduler
FairSpec == Spec /\ WF_vars(Worker) /\ WF_vars(Drop)

(* ---------------------------- vocabulary of the claims ----------------- *)

IsPublish(c) == c.type = "SendMessage"
Publishes(q) == SelectSeq(q, IsPublish)
IdsOf(q) == [i \in 1..Len(q) |-> q[i].id]
PublishedIds == {published[i].id : i \in 1..Len(published)}
\* the log calls whose command the worker has handed to publish, in order
Handed == IdsOf(published) \o IdsOf(failed) \o IdsOf(inflight)
HandedIds == {Handed[i] : i \in 1..Len(Handed)}
SentIds == IdsOf(Publishes(sent))
OfProducer(ids, p) == SelectSeq(ids, LAMBDA id : id[1] = p)
IsPrefix(s, t) == Len(s) <= Len(t) /\ SubSeq(t, 1, Len(s)) = s
Distinct(s) == \A i, j \in 1..Len(s) : i # j => s[i] # s[j]
Connecting == wstate \in {"Connecting", "Backoff"}
\* log() sends a command for the record: it passes the level check and the
\* formatter returned Ok with at least one byte
Accepts(r) == r.op = "log" /\ enabled(r.level, log_level) /\ r.ok /\ r.data # <<>>
CallIds == {<<p, k>> : p \in Producers, k \in 1..(IF MaxMsgs > 2 THEN MaxMsgs ELSE 2)}
MadeCalls == {id \in CallIds : id[2] <= calls[id[1]]}
RecordOf(id) == program[id[1]][id[2]]
\* caller thread p takes a log step
LogStep(p) == calls'[p] = calls[p] + 1 /\ program[p][calls'[p]].op = "log"
\* the Publish commands sent before the first Exit
BeforeExit ==
    {i \in 1..Len(sent) : IsPublish(sent[i]) /\ \E j \in (i + 1)..Len(sent) : sent[j] = Exit}
AfterExitSent ==
    {i \in 1..Len(sent) : IsPublish(sent[i]) /\ \E j \in 1..(i - 1) : sent[j] = Exit}

(* ---------------------------- C1 --------------------------------------- *)

\* C1 as stated: whenever destruction has completed normally, every Publish
\* enqueued before the Shutdown command has been published.
C1_FlushOnShutdown_AsStated ==
    dropPc = "done" => \A i \in BeforeExit : sent[i].id \in PublishedIds

\* C1 amended: whenever the worker established the connection and destruction
\* has completed normally, every Publish enqueued before the Shutdown command
\* has been published.
C1_FlushOnShutdown ==
    (dropPc = "done" /\ wstate # "Returned")
        => \A i \in BeforeExit : sent[i].id \in PublishedIds

C1_Witness ==
    /\ dropPc = "done"
    /\ wstate = "Exited"
    /\ Cardinality(BeforeExit) > NumProducers
    /\ Len(published) = Cardinality(BeforeExit)

(* ---------------------------- C2 --------------------------------------- *)

\* C2: once the worker has consumed Exit it takes nothing more from the
\* channel and publishes nothing more, and a Publish sent after Exit is never
\* handed to publish.
C2_NothingAfterShutdown ==
    /\ [](\A i \in AfterExitSent : sent[i].id \notin HandedIds)
    /\ [][wstate = "Exited" =>
            /\ wstate' = "Exited"
            /\ IsPrefix(queue, queue')
            /\ published' = published
            /\ inflight' = inflight
            /\ failed' = failed]_vars

C2_Witness ==
    /\ wstate = "Exited"
    /\ \E i \in 1..Len(queue) : IsPublish(queue[i])
    /\ Len(published) > 0

(* ---------------------------- C3 --------------------------------------- *)

DropWaiting == dropPc \in {"sent", "joining"}
DropEnded == dropPc \in {"done", "fatal"}

C4_SingleProducerOrder ==
    \A p \in Producers :
        /\ IsPrefix(OfProducer(Handed, p), OfProducer(SentIds, p))
        /\ \A i, j \in 1..Len(OfProducer(SentIds, p)) :
              i < j => OfProducer(SentIds, p)[i][2] < OfProducer(SentIds, p)[j][2]

C4_Witness ==
    \E i, j, k \in 1..Len(published) :
        /\ i < j /\ j < k
        /\ published[i].id[1] = published[k].id[1]
        /\ published[j].id[1] # published[i].id[1]

(* ---------------------------- C5 --------------------------------------- *)

AllCallsMade == \A p \in Producers : calls[p] = Len(program[p]) /\ ~callerPanicked[p]
Drained == wstate = "Running" /\ Publishes(queue) = <<>>

\* C5: the worker observes every enqueued message exactly once: nothing is
\* observed twice, everything sent is either observed or still buffered, and
\* when all caller threads are done and the worker has drained the channel it
\* has observed exactly the accepted log calls (N*M of them when N threads
\* log M accepted records each).
C5_MultiProducerSafety ==
    /\ Distinct(Handed)
    /\ Distinct(SentIds)
    /\ HandedIds \cup {c.id : c \in {queue[i] : i \in {j \in 1..Len(queue) : IsPublish(queue[j])}}}
          = {SentIds[i] : i \in 1..Len(SentIds)}
    /\ Len(Handed) + Len(Publishes(queue)) = Len(SentIds)
    /\ (AllCallsMade /\ Drained)
          => /\ HandedIds = {id \in MadeCalls : Accepts(RecordOf(id))}
             /\ Len(Handed) = Cardinality({id \in MadeCalls : Accepts(RecordOf(id))})

C5_Witness ==
    /\ AllCallsMade
    /\ Drained
    /\ \E p, q \in Producers :
          /\ p # q
          /\ calls[p] > 1
          /\ calls[q] > 1
          /\ Len(Handed) = calls[p] + calls[q]
    /\ Handed[1][1] # Handed[2][1]

(* ---------------------------- C6 --------------------------------------- *)

\* C6: after the connection attempt failed terminally nothing was published,
\* and every later log call on an accepted record completes without a fatal
\* condition and leaves its command in the queue.
C6_SilentConnectionFailure ==
    /\ [](wstate = "Returned" => Handed = <<>>)
    /\ [][\A p \in Producers :
            (wstate = "Returned" /\ LogStep(p) /\ Accepts(program[p][calls'[p]]))
                => /\ ~callerPanicked'[p]
                   /\ Len(queue') = Len(queue) + 1
                   /\ queue'[Len(queue')].id = <<p, calls'[p]>>]_vars

(* ---------------------------- C7 --------------------------------------- *)

\* after a failed publish the worker does nothing more: the failed message is
\* not published, no later message is published, nothing more is received
WorkerStopsAtFailure ==
    /\ [](failed # <<>> => wstate = "Panicked" /\ failed[1].id \notin PublishedIds)
    /\ [][failed # <<>> =>
            /\ wstate' = "Panicked"
            /\ failed' = failed
            /\ published' = published
            /\ inflight' = inflight
            /\ IsPrefix(queue, queue')]_vars

\* C7 as stated: a publish failure stops the worker and the whole process:
\* after it no thread takes any further step.
C7_PublishFailureFatal_AsStated ==
    WorkerStopsAtFailure /\ [][wstate = "Panicked" => UNCHANGED vars]_vars

\* C7 amended: a publish failure stops the worker thread: the failed message
\* is never published again and no later message is published.  (The caller
\* threads go on: their later log calls and the shutdown path panic.)
C7_PublishFailureFatal == WorkerStopsAtFailure

C7_Witness ==
    /\ wstate = "Panicked"
    /\ failed # <<>>
    /\ Len(published) > 0
    /\ Publishes(queue) # <<>>
    /\ \E p \in Producers : callerPanicked[p]

(* ---------------------------- C8 --------------------------------------- *)

BufferedIn(q, id) == \E i \in 1..Len(q) : IsPublish(q[i]) /\ q[i].id = id
Buffered(id) == BufferedIn(queue, id)
NoExitBefore(id) ==
    \A i \in 1..Len(queue) :
        (IsPublish(queue[i]) /\ queue[i].id = id)
            => \A j \in 1..(i - 1) : queue[j] # Exit

\* C8: while the worker is connecting, log calls on accepted records complete
\* and their commands stay buffered, nothing being published; and a command
\* buffered when the worker is Running, with no Exit ahead of it, is
\* eventually published unless a publish fails.
C8_BufferedUntilRunning ==
    /\ [](Connecting => queue = sent /\ Handed = <<>> /\ rxAlive)
    /\ [][\A p \in Producers :
            (Connecting /\ LogStep(p) /\ Accepts(program[p][calls'[p]]))
                => /\ ~callerPanicked'[p]
                   /\ BufferedIn(queue', <<p, calls'[p]>>)]_vars
    /\ \A id \in CallIds :
            (Buffered(id) /\ wstate = "Running" /\ NoExitBefore(id))
                ~> (id \in PublishedIds \/ wstate = "Panicked")

C8_Witness ==
    /\ wstate = "Backoff"
    /\ Len(Publishes(queue)) > NumProducers
    /\ dropPc = "alive"

(* ---------------------------- C9 --------------------------------------- *)

\* the level ordering of the claim, least verbose first
LevelOrder == <<"Off", "Error", "Warn", "Info", "Debug", "Trace">>
Position(l) == CHOOSE i \in 1..Len(LevelOrder) : LevelOrder[i] = l
AtMost(l, c) == Position(l) <= Position(c)

\* C9: a log call reaches the formatter iff its record's level is at most the
\* configured level in the level ordering; a log call on any other record
\* changes nothing but the caller's position, and is never published.
C9_LevelGating ==
    /\ [](\A id \in HandedIds \cup {SentIds[i] : i \in 1..Len(SentIds)} :
              AtMost(RecordOf(id).level, log_level))
    /\ [][\A p \in Producers :
            LogStep(p) =>
                LET r == program[p][calls'[p]]
                IN  /\ (try_log_calls' = try_log_calls + 1) <=> AtMost(r.level, log_level)
                    /\ (try_log_calls' = try_log_calls) <=> ~AtMost(r.level, log_level)
                    /\ ~AtMost(r.level, log_level)
                          => UNCHANGED <<queue, sent, callerPanicked, rxAlive,
                                         workerVars, dropVars, inputVars>>]_vars

C9_Witness ==
    /\ calls[1] = 2
    /\ program[1][1].op = "log"
    /\ program[1][2].op = "log"
    /\ program[1][1].level = log_level
    /\ Position(program[1][2].level) = Position(log_level) + 1
    /\ try_log_calls = 1
    /\ Len(published) = 1
    /\ Drained

(* ---------------------------- C10 -------------------------------------- *)

\* t is s without its trailing whitespace
IsTrimmedEnd(t, s) ==
    /\ IsPrefix(t, s)
    /\ \A i \in (Len(t) + 1)..Len(s) : s[i] \in Whitespace
    /\ t # <<>> => t[Len(t)] \notin Whitespace

\* C10: every publish carries the topic "logging/" joined with the
\* application name and the formatted text of an accepted log call without
\* its trailing whitespace; no log call is published twice and a rejected one
\* never; once the Running worker has drained the channel every accepted log
\* call made so far has been published exactly once.
C10_EndToEnd ==
    /\ \A i \in 1..Len(published) :
          /\ published[i].topic = "logging/" \o application_name
          /\ published[i].id \in MadeCalls
          /\ Accepts(RecordOf(published[i].id))
          /\ IsTrimmedEnd(published[i].payload, RecordOf(published[i].id).data)
    /\ Distinct(IdsOf(published))
    /\ (Drained /\ failed = <<>>)
          => \A id \in MadeCalls :
                Accepts(RecordOf(id)) => \E i \in 1..Len(published) : published[i].id = id

C10_Witness ==
    /\ application_name = "application"
    /\ calls[1] = 2
    /\ program[1][1] = Record("Info", TRUE, <<"a", " ">>)
    /\ program[1][2].level = "Debug"
    /\ published = <<[topic |-> "logging/application", payload |-> <<"a">>, id |-> <<1, 1>>]>>
    /\ Drained

(* ---------------------------- C11 -------------------------------------- *)

\* the record passes the level check and the formatter fails or writes nothing
EmptyOutput(r) == r.op = "log" /\ AtMost(r.level, log_level) /\ (~r.ok \/ r.data = <<>>)

\* C11: a log call on an accepted record for which the formatter returns an
\* error or writes no bytes calls the formatter and sends nothing: the channel
\* is unchanged, no caller fails, and no command of that call is ever
\* buffered or handed to publish.
C11_EmptyOutputEnqueuesNothing ==
    /\ [](\A id \in MadeCalls :
              EmptyOutput(RecordOf(id))
                  => /\ id \notin HandedIds
                     /\ ~Buffered(id)
                     /\ \A i \in 1..Len(SentIds) : SentIds[i] # id)
    /\ [][\A p \in Producers :
            (LogStep(p) /\ EmptyOutput(program[p][calls'[p]]))
                => /\ try_log_calls' = try_log_calls + 1
                   /\ UNCHANGED <<queue, sent, callerPanicked, rxAlive, workerVars,
                                  dropVars>>]_vars

C11_Witness ==
    /\ calls[1] = 2
    /\ program[1][1] = Record("Info", TRUE, <<>>)
    /\ program[1][2] = Record("Info", FALSE, <<"a">>)
    /\ try_log_calls = 2
    /\ sent = <<>>
    /\ wstate = "Running"

(* ---------------------------- C12 -------------------------------------- *)

\* C12: the join handle is present until a run of the shutdown path takes it
\* and is absent from then on; a run of the shutdown path started after an
\* earlier run has ended ends in a fatal condition at once.
C12_DoubleTeardownFatal ==
    /\ [](drops = 0 => join_handle = "Some")
    /\ [](dropPc \in {"joining", "done"} => join_handle = "None")
    /\ [][join_handle = "None" => join_handle' = "None"]_vars
    /\ [](drops > 1 => dropPc = "fatal")

C12_Witness ==
    /\ drops = 2
    /\ dropPc = "fatal"
    /\ join_handle = "None"
    /\ wstate = "Exited"

(* ---------------------------- C13 -------------------------------------- *)

\* C13: when the worker thread has panicked, destruction has not completed
\* and never completes normally: a run that starts afterwards is fatal at the
\* send, and a run that is waiting ends fatal.
C13_AbnormalTerminationSurfaced ==
    /\ [](wstate = "Panicked" => dropPc # "done")
    /\ [][(wstate = "Panicked" /\ dropPc = "alive" /\ dropPc' # dropPc)
            => dropPc' = "fatal"]_vars
    /\ (wstate = "Panicked" /\ DropWaiting) ~> dropPc = "fatal"

C13_Witness ==
    /\ wstate = "Panicked"
    /\ dropPc = "fatal"
    /\ drops = 1
    /\ join_handle = "None"

(* ---------------------------- C14 -------------------------------------- *)

NextIs(p, op) ==
    /\ ~callerPanicked[p]
    /\ calls[p] < Len(program[p])
    /\ program[p][calls[p] + 1].op = op

SinkDestroyed == dropPc \in {"done", "fatal"} \/ drops > 1

\* C15: while the worker thread has not finished the sink has not been
\* destroyed, so its Sender is alive and the receive loop never ends on a
\* disconnected channel; a Running worker that leaves the loop without a
\* panic has just received Exit.
C15_OnlyExplicitShutdown ==
    /\ [](wstate \in {"Connecting", "Backoff", "Running", "Publishing"}
              => ~SinkDestroyed /\ ~sender_dropped)
    /\ [](wstate # "Disconnected")
    /\ [][(wstate = "Running" /\ wstate' \notin {"Running", "Publishing"})
            => /\ queue # <<>>
               /\ Head(queue) = Exit
               /\ wstate' = "Exited"]_vars

C15_Witness ==
    /\ wstate = "Exited"
    /\ dropPc = "joining"
    /\ Len(published) > 1

(* ---------------------------- C16 -------------------------------------- *)

FlushStep(p) == calls'[p] = calls[p] + 1 /\ program[p][calls'[p]].op = "flush"

\* C16: flush can be called in every state and changes nothing but the
\* caller's position: the channel, the worker, the publishes and the join
\* handle stay as they are, whatever is still buffered.
C16_FlushIsNoOp ==
    /\ [](\A p \in Producers : NextIs(p, "flush") => ENABLED Flush(p))
    /\ [][\A p \in Producers :
            FlushStep(p)
                => UNCHANGED <<inputVars, callerPanicked, try_log_calls, queue,
                               sent, rxAlive, workerVars, dropVars>>]_vars

C16_Witness ==
    /\ program[1] = <<PlainRecord, FlushCall>>
    /\ calls[1] = 2
    /\ wstate = "Running"
    /\ Publishes(queue) # <<>>
    /\ published = <<>>

(* ---------------------------- C17 -------------------------------------- *)

AsLogStep(p) == calls'[p] = calls[p] + 1 /\ program[p][calls'[p]].op = "as_log"
Converted ==
    \E p \in Producers : \E k \in 1..calls[p] : program[p][k].op = "as_log"

\* C17: as_log changes nothing but the caller's position: no Exit is sent,
\* the channel, the worker, the join handle and the configured level stay as
\* they are; and on the converted sink a log call can be taken and sends its
\* command as on the original one.
C17_AsLogIsOwnershipTransfer ==
    /\ [][\A p \in Producers :
            AsLogStep(p)
                => UNCHANGED <<inputVars, callerPanicked, try_log_calls, queue,
                               sent, rxAlive, workerVars, dropVars>>]_vars
    /\ [](\A p \in Producers : (Converted /\ NextIs(p, "log")) => ENABLED Log(p))
    /\ [][\A p \in Producers :
            (Converted /\ LogStep(p) /\ Accepts(program[p][calls'[p]]) /\ rxAlive)
                => /\ Len(sent') = Len(sent) + 1
                   /\ sent'[Len(sent')].id = <<p, calls'[p]>>
                   /\ BufferedIn(queue', <<p, calls'[p]>>)]_vars
    /\ [](Converted /\ drops = 0 => \A i \in 1..Len(sent) : sent[i] # Exit)

C17_Witness ==
    /\ program[1] = <<AsLogCall, PlainRecord>>
    /\ calls[1] = 2
    /\ Len(published) = 1
    /\ drops = 0
    /\ join_handle = "Some"

(* ---------------------------- C18 -------------------------------------- *)

\* C18: in every state the log calls published so far, and those handed to
\* publish so far, are a prefix of the Publish commands in the order the
\* channel accepted them, none twice.
C18_PublishedIsPrefix ==
    /\ IsPrefix(IdsOf(published), SentIds)
    /\ IsPrefix(Handed, SentIds)
    /\ Distinct(IdsOf(published))

C18_Witness ==
    /\ wstate = "Panicked"
    /\ dropPc = "fatal"
    /\ Len(published) > 0
    /\ Len(SentIds) > Len(published) + 1
    /\ \E p \in Producers : callerPanicked[p]

(* ---------------------------- C19 -------------------------------------- *)

\* C19 as stated: destruction has completed normally only if the worker left
\* its receive loop by receiving Exit.
C19_NormalTeardownMeansExitConsumed_AsStated == dropPc = "done" => wstate = "Exited"

\* C19 amended: destruction has completed normally only if the worker
\* received Exit, or the connection attempt failed while Exit was already in
\* the channel; a run of the shutdown path that starts after the connection
\* attempt has failed does not complete normally.
C19_NormalTeardownMeansExitConsumed ==
    /\ [](dropPc = "done"
            => \/ wstate = "Exited"
               \/ wstate = "Returned" /\ \E i \in 1..Len(queue) : queue[i] = Exit)
    /\ [][(wstate = "Returned" /\ dropPc = "alive" /\ dropPc' # dropPc)
            => dropPc' = "fatal"]_vars

C19_Witness ==
    /\ dropPc = "done"
    /\ wstate = "Returned"
    /\ Publishes(queue) # <<>>

(* ---------------------------- C20 -------------------------------------- *)

\* C20: once a run of the shutdown path has ended, normally or fatally, the
\* worker thread has finished, nothing is inside publish, and from then on
\* nothing is taken from the channel and nothing is published.
C20_NoPublishAfterTeardown ==
    /\ [](SinkDestroyed
            => /\ wstate \in {"Returned", "Exited", "Panicked"}
               /\ inflight = <<>>)
    /\ [][SinkDestroyed
            => /\ wstate' = wstate
               /\ published' = published
               /\ failed' = failed
               /\ inflight' = inflight
               /\ IsPrefix(queue, queue')]_vars

C20_Witness ==
    /\ dropPc = "fatal"
    /\ drops = 1
    /\ wstate = "Returned"
    /\ Publishes(queue) # <<>>
    /\ join_handle = "Some"

====
